---- MODULE Spec2Model ----
(***************************************************************************)
(* A model of logging_monad.py: the LoggedValue container (a value plus a  *)
(* mutable logs dictionary), its bind / map / tree_flatten /               *)
(* tree_unflatten methods and the n-ary lifting combinator bind_nary.      *)
(*                                                                         *)
(* Python objects are references, so the model keeps a heap: objs holds    *)
(* the LoggedValue instances (each with a value and a reference to a       *)
(* dict), dicts holds the dict objects. Two instances may reference the    *)
(* same dict (line 15 keeps a non-empty dict it is handed).                *)
(*                                                                         *)
(* Values are symbolic terms written in prefix form as sequences of        *)
(* integers: the k-th constructed input is <<k>>, and a function applied   *)
(* to arguments is <<id, n>> followed by the n argument terms.             *)
(***************************************************************************)
EXTENDS Integers, Sequences, FiniteSets, TLC

VARIABLES objs, dicts, pc, flat, last

vars == <<objs, dicts, pc, flat, last>>

\* ------------------------------------------------------------- bounds
MaxObjs == 3
MaxArgs == 3
MaxChain == 2

\* ------------------------------------------------------------- inputs
Keys == {"a", "b"}

EmptyDict == [k \in {} |-> 0]

OneEntry(k, v) == [x \in {k} |-> v]

\* dict literals a caller hands to LoggedValue(...)
ArgLogs == {EmptyDict, OneEntry("a", 1), OneEntry("a", 2), OneEntry("b", 2)}

\* dict literals a bound function puts in the LoggedValue it returns
FLogs == {EmptyDict, OneEntry("a", 3), [k \in Keys |-> 3]}

FId == 0 - 1
GId == 0 - 2

RECURSIVE Flatten(_)
Flatten(ss) == IF ss = <<>> THEN <<>> ELSE Head(ss) \o Flatten(Tail(ss))

\* the term "function id applied to args"
App(id, args) == <<id, Len(args)>> \o Flatten(args)

\* a function handed to bind / bind_nary: how many positional arguments it
\* takes, whether it returns a LoggedValue ("lv") or a bare value ("bare"),
\* and the logs of the LoggedValue it returns
Fun(arity, ret, logs) == [id |-> FId, arity |-> arity, ret |-> ret, logs |-> logs]

\* a function handed to map: returns a new value ("value") or raises ("raise")
PureFun(ret) == [id |-> GId, arity |-> 1, ret |-> ret, logs |-> EmptyDict]

NoFun == [id |-> 0, arity |-> 0, ret |-> "none", logs |-> EmptyDict]

\* the functions tried on n wrapped arguments: well-shaped ones, one that
\* returns a bare value, one that takes one positional argument too many
Funs(n) ==
    {Fun(n, "lv", L) : L \in FLogs}
        \cup {Fun(n, "bare", EmptyDict), Fun(n + 1, "lv", EmptyDict)}

PureFuns == {PureFun("value"), PureFun("raise")}

Heap(os, ds) == [objs |-> os, dicts |-> ds]

EmptyHeap == Heap(<<>>, <<>>)

\* ------------------------------------------------------------- LoggedValue
\* a variant of update where the receiver's entries win over the other's
update_receiverWins(d, other) ==
    [k \in DOMAIN d \cup DOMAIN other |->
        IF k \in DOMAIN d THEN d[k] ELSE other[k]]

\* dict.update(other): entries of other overwrite entries of d
update(d, other) ==
    [k \in DOMAIN d \cup DOMAIN other |->
        IF k \in DOMAIN other THEN other[k] ELSE d[k]]

\* LoggedValue.__init__(value, logs): logs is None ("none"), a dict literal
\* ("lit", a fresh dict object) or an existing dict object ("ref").
\* self.logs = logs or {}: a falsy logs (None, an empty dict) gives a fresh {}.
LoggedValue(h, value, logs) ==
    LET share == logs.kind = "ref" /\ h.dicts[logs.id] # EmptyDict
        content == IF logs.kind = "lit" THEN logs.d ELSE EmptyDict
        ds == IF share THEN h.dicts ELSE Append(h.dicts, content)
        d == IF share THEN logs.id ELSE Len(ds)
    IN  [h |-> Heap(Append(h.objs, [value |-> value, logs |-> d]), ds),
         fault |-> "none",
         ret |-> Len(h.objs) + 1]

NoneArg == [kind |-> "none", d |-> EmptyDict, id |-> 0]
LitArg(d) == [kind |-> "lit", d |-> d, id |-> 0]
RefArg(i) == [kind |-> "ref", d |-> EmptyDict, id |-> i]

\* f(*args) for a function descriptor f: a wrong argument count is a
\* TypeError at the call; a bare result is no object of the heap (ret = 0)
Call(h, f, args) ==
    IF Len(args) # f.arity
    THEN [h |-> h, fault |-> "TypeError", ret |-> 0]
    ELSE IF f.ret = "lv"
    THEN LoggedValue(h, App(f.id, args), LitArg(f.logs))
    ELSE [h |-> h, fault |-> "none", ret |-> 0]

\* variants of bind: one that leaves self.value alone, one that replaces
\* self.logs by x.logs, one that leaves self.logs alone, one that catches
\* the fault of f and returns self
bind_keepsValue(self, r) ==
    IF r.fault # "none" THEN r
    ELSE IF r.ret = 0 THEN [h |-> r.h, fault |-> "AttributeError", ret |-> 0]
    ELSE LET d == r.h.objs[self].logs
             ds == [r.h.dicts EXCEPT ![d] = update(@, r.h.dicts[r.h.objs[r.ret].logs])]
         IN  [h |-> Heap(r.h.objs, ds), fault |-> "none", ret |-> self]

bind_replacesLogs(self, r) ==
    IF r.fault # "none" THEN r
    ELSE IF r.ret = 0 THEN [h |-> r.h, fault |-> "AttributeError", ret |-> 0]
    ELSE LET os == [r.h.objs EXCEPT ![self].value = r.h.objs[r.ret].value]
             d == os[self].logs
             ds == [r.h.dicts EXCEPT ![d] = r.h.dicts[os[r.ret].logs]]
         IN  [h |-> Heap(os, ds), fault |-> "none", ret |-> self]

bind_keepsLogs(self, r) ==
    IF r.fault # "none" THEN r
    ELSE IF r.ret = 0 THEN [h |-> r.h, fault |-> "AttributeError", ret |-> 0]
    ELSE [h |-> Heap([r.h.objs EXCEPT ![self].value = r.h.objs[r.ret].value],
                     r.h.dicts),
          fault |-> "none",
          ret |-> self]

bind_catches(self, r) ==
    IF r.fault # "none" \/ r.ret = 0
    THEN [h |-> r.h, fault |-> "none", ret |-> self]
    ELSE LET os == [r.h.objs EXCEPT ![self].value = r.h.objs[r.ret].value]
             d == os[self].logs
             ds == [r.h.dicts EXCEPT ![d] = update(@, r.h.dicts[os[r.ret].logs])]
         IN  [h |-> Heap(os, ds), fault |-> "none", ret |-> self]

\* LoggedValue.bind, lines 23-25, given r, the outcome of x = f(self.value)
\* of line 22: a fault in f propagates; x.value on a bare x is an
\* AttributeError; else self.value = x.value, self.logs.update(x.logs),
\* return self
bind(self, r) ==
    IF r.fault # "none" THEN r
    ELSE IF r.ret = 0 THEN [h |-> r.h, fault |-> "AttributeError", ret |-> 0]
    ELSE LET os == [r.h.objs EXCEPT ![self].value = r.h.objs[r.ret].value]
             d == os[self].logs
             ds == [r.h.dicts EXCEPT ![d] = update(@, r.h.dicts[os[r.ret].logs])]
         IN  [h |-> Heap(os, ds), fault |-> "none", ret |-> self]

\* a variant of map that also empties self.logs
map_clearsLogs(h, self, g) ==
    IF g.ret = "raise" THEN [h |-> h, fault |-> "Raised", ret |-> 0]
    ELSE [h |-> Heap([h.objs EXCEPT ![self].value = App(g.id, <<@>>)],
                     [h.dicts EXCEPT ![h.objs[self].logs] = EmptyDict]),
          fault |-> "none",
          ret |-> self]

\* LoggedValue.map: self.value = f(self.value); return self
map(h, self, g) ==
    IF g.ret = "raise" THEN [h |-> h, fault |-> "Raised", ret |-> 0]
    ELSE [h |-> Heap([h.objs EXCEPT ![self].value = App(g.id, <<@>>)], h.dicts),
          fault |-> "none",
          ret |-> self]

\* a variant of tree_flatten with value as the only child and logs as the
\* auxiliary data
tree_flatten_logsAsAux(h, self) ==
    [children |-> <<[kind |-> "value", value |-> h.objs[self].value, id |-> 0]>>,
     aux |-> "logs"]

\* tree_flatten: ((self.value, self.logs), None); logs is the dict object
tree_flatten(h, self) ==
    [children |-> <<[kind |-> "value", value |-> h.objs[self].value, id |-> 0],
                    [kind |-> "dict", value |-> <<>>, id |-> h.objs[self].logs]>>,
     aux |-> "None"]

\* one child of tree_flatten as a constructor argument
ChildLogs(c) == IF c.kind = "dict" THEN RefArg(c.id) ELSE NoneArg

\* a variant of tree_unflatten that passes the first child only
tree_unflatten_valueOnly(h, aux, children) ==
    LoggedValue(h, children[1].value, NoneArg)

\* tree_unflatten(aux_data, children): cls(*children)
tree_unflatten(h, aux, children) ==
    LoggedValue(h, children[1].value,
                IF Len(children) >= 2 THEN ChildLogs(children[2]) ELSE NoneArg)

\* ------------------------------------------------------------- bind_nary
\* variants of bind_nary: one that hands f the values in reverse order, one
\* that binds the first argument only, to f of all the values
RECURSIVE bind_nary_reversed(_, _, _, _)
bind_nary_reversed(h, f, given, xs) ==
    IF xs = <<>> THEN Call(h, f, given)
    ELSE LET x == Head(xs)
             v == h.objs[x].value
         IN  IF Len(xs) = 1
             THEN bind(x, Call(h, f, <<v>> \o given))
             ELSE bind(x, bind_nary_reversed(h, f, <<v>> \o given, Tail(xs)))

bind_nary_firstOnly(h, f, given, xs) ==
    IF xs = <<>> THEN Call(h, f, given)
    ELSE bind(Head(xs),
              Call(h, f, given \o [i \in 1 .. Len(xs) |-> h.objs[xs[i]].value]))

\* bind_nary(f', *xs) where f' is f partially applied to the values taken
\* so far (given), lines 41-47
RECURSIVE bind_nary(_, _, _, _)
bind_nary(h, f, given, xs) ==
    IF xs = <<>> THEN Call(h, f, given)
    ELSE LET x == Head(xs)
             v == h.objs[x].value
         IN  IF Len(xs) = 1
             THEN bind(x, Call(h, f, Append(given, v)))
             ELSE bind(x, bind_nary(h, f, Append(given, v), Tail(xs)))

\* transform(f): lambda *xs: bind_nary(f, *xs)
transform(h, f, xs) == bind_nary(h, f, <<>>, xs)

\* when a call returns, the objects it created and did not return are
\* unreachable: the heap drops them
Collect(h0, r) ==
    IF r.ret > Len(h0.objs) THEN r
    ELSE [r EXCEPT !.h = Heap(SubSeq(r.h.objs, 1, Len(h0.objs)),
                              SubSeq(r.h.dicts, 1, Len(h0.dicts)))]

\* ------------------------------------------------------------- the program
NoFlat == [children |-> <<>>, aux |-> "unset"]

NoLast ==
    [op |-> "none", f |-> NoFun, xs |-> <<>>, pre |-> EmptyHeap,
     start |-> EmptyHeap, done |-> <<>>, ret |-> 0, fault |-> "none"]

Init ==
    /\ objs = <<>>
    /\ dicts = <<>>
    /\ pc = "build"
    /\ flat = NoFlat
    /\ last = NoLast

HeapNow == Heap(objs, dicts)

\* the record of a call that has returned or faulted
Done(op, f, xs, r) ==
    /\ objs' = r.h.objs
    /\ dicts' = r.h.dicts
    /\ pc' = IF r.fault # "none" THEN "faulted"
             ELSE IF op \in {"bind", "map"} THEN "chain" ELSE "returned"
    /\ last' = [op |-> op, f |-> f, xs |-> xs, pre |-> HeapNow,
                start |-> IF pc = "chain" THEN last.start ELSE HeapNow,
                done |-> IF pc = "chain"
                         THEN Append(last.done, [op |-> last.op, f |-> last.f])
                         ELSE <<>>,
                ret |-> r.ret, fault |-> r.fault]
    /\ UNCHANGED flat

\* the caller constructs LoggedValue(<<k>>, logs)
New ==
    /\ pc = "build"
    /\ Len(objs) < MaxObjs
    /\ \E logs \in {NoneArg} \cup {LitArg(d) : d \in ArgLogs}
                       \cup {RefArg(i) : i \in 1 .. Len(dicts)} :
          LET r == LoggedValue(HeapNow, <<Len(objs) + 1>>, logs)
          IN  /\ objs' = r.h.objs
              /\ dicts' = r.h.dicts
    /\ UNCHANGED <<pc, flat, last>>

\* the receivers of a chain step: any instance to start a chain, the
\* instance the previous step returned to continue one
Receivers ==
    IF pc = "build" THEN 1 .. Len(objs)
    ELSE IF pc = "chain" /\ Len(last.done) + 1 < MaxChain THEN {last.ret}
    ELSE {}

\* x.bind(f)
Bind ==
    \E x \in Receivers, f \in Funs(1) :
        Done("bind", f, <<x>>,
             Collect(HeapNow, bind(x, Call(HeapNow, f, <<objs[x].value>>))))

\* x.map(g)
Map ==
    \E x \in Receivers, g \in PureFuns :
        Done("map", g, <<x>>, map(HeapNow, x, g))

ArgLists ==
    UNION {[1 .. n -> 1 .. Len(objs)] : n \in 0 .. MaxArgs}

\* transform(f)(*xs), i.e. bind_nary(f, *xs)
BindNary ==
    /\ pc = "build"
    /\ \E xs \in ArgLists :
          \E f \in Funs(Len(xs)) :
              Done("bind_nary", f, xs, Collect(HeapNow, transform(HeapNow, f, xs)))

\* x.tree_flatten()
TreeFlatten ==
    /\ pc = "build"
    /\ \E x \in 1 .. Len(objs) :
          /\ flat' = tree_flatten(HeapNow, x)
          /\ last' = [NoLast EXCEPT !.op = "tree_flatten", !.xs = <<x>>,
                                    !.pre = HeapNow, !.start = HeapNow, !.ret = x]
    /\ pc' = "flattened"
    /\ UNCHANGED <<objs, dicts>>

\* LoggedValue.tree_unflatten(aux, children) on what tree_flatten gave
TreeUnflatten ==
    /\ pc = "flattened"
    /\ LET r == tree_unflatten(HeapNow, flat.aux, flat.children)
       IN  /\ objs' = r.h.objs
           /\ dicts' = r.h.dicts
           /\ last' = [last EXCEPT !.op = "tree_unflatten", !.ret = r.ret]
    /\ pc' = "rebuilt"
    /\ UNCHANGED flat

Next == New \/ Bind \/ Map \/ BindNary \/ TreeFlatten \/ TreeUnflatten

Spec == Init /\ [][Next]_vars

\* ------------------------------------------------------------- reading a state
\* the call the last step made: its arguments, their state before the call
\* (Pre...), at the start of the chain (Start...) and now (Now...)
Xs == last.xs
N == Len(last.xs)
PreVal(o) == last.pre.objs[o].value
PreLogs(o) == last.pre.dicts[last.pre.objs[o].logs]
StartVal(o) == last.start.objs[o].value
StartLogs(o) == last.start.dicts[last.start.objs[o].logs]
NowVal(o) == objs[o].value
NowLogs(o) == dicts[objs[o].logs]

Returned(op) == last.op = op /\ last.fault = "none" /\ last.f.ret \in {"lv", "value"}

Distinct(xs) == \A i, j \in DOMAIN xs : i # j => xs[i] # xs[j]

\* no two arguments hold the same dict object as their logs
DistinctLogs(xs) ==
    \A i, j \in DOMAIN xs :
        i # j => last.pre.objs[xs[i]].logs # last.pre.objs[xs[j]].logs

\* d overwritten by the entries of e
Overwrite(d, e) ==
    [k \in DOMAIN d \cup DOMAIN e |-> IF k \in DOMAIN e THEN e[k] ELSE d[k]]

RECURSIVE FoldLogs(_, _)
FoldLogs(acc, ds) ==
    IF ds = <<>> THEN acc ELSE FoldLogs(Overwrite(acc, Head(ds)), Tail(ds))

\* the logs the arguments i..N held before the call, in order, then f's
LogsFrom(i) == [j \in 1 .. (N - i + 1) |-> PreLogs(Xs[i + j - 1])] \o <<last.f.logs>>

KeysFrom(i) == UNION {DOMAIN LogsFrom(i)[j] : j \in DOMAIN LogsFrom(i)}

\* the last argument holding key k
LastWith(k) ==
    CHOOSE i \in 1 .. N :
        /\ k \in DOMAIN PreLogs(Xs[i])
        /\ \A j \in (i + 1) .. N : k \notin DOMAIN PreLogs(Xs[j])

\* ------------------------------------------------------------- claims
\* C1: bind_nary(f, X1, ..., Xn) on distinct instances returns a LoggedValue
\* whose value is f(X1.value, ..., Xn.value), the values taken in argument
\* order from before the call, and whose log keys are exactly the keys of
\* X1.logs, ..., Xn.logs and of the logs f returned.
C1_BindNaryValueAndKeys ==
    (Returned("bind_nary") /\ Distinct(Xs)) =>
        /\ last.ret \in 1 .. Len(objs)
        /\ NowVal(last.ret) = App(FId, [i \in 1 .. N |-> PreVal(Xs[i])])
        /\ DOMAIN NowLogs(last.ret) = KeysFrom(1)

C1_Witness ==
    /\ Returned("bind_nary") /\ Distinct(Xs) /\ N = 3
    /\ DOMAIN PreLogs(Xs[1]) = {"a"}
    /\ DOMAIN PreLogs(Xs[2]) = {"b"}
    /\ DOMAIN PreLogs(Xs[3]) = {}
    /\ last.f.logs = OneEntry("a", 3)
    /\ DOMAIN NowLogs(last.ret) = {"a", "b"}

\* C2: in the logs of the result of bind_nary a key f returned takes f's
\* value, any other key takes the value of the last argument that holds it;
\* the result logs are X1.logs overwritten by X2.logs, ..., Xn.logs and then
\* by f's logs.
C2_LastArgumentWinsThenCallee ==
    Returned("bind_nary") =>
        /\ \A k \in DOMAIN NowLogs(last.ret) :
              NowLogs(last.ret)[k] =
                  IF k \in DOMAIN last.f.logs THEN last.f.logs[k]
                  ELSE PreLogs(Xs[LastWith(k)])[k]
        /\ NowLogs(last.ret) = FoldLogs(EmptyDict, LogsFrom(1))

C2_Witness ==
    /\ Returned("bind_nary") /\ N = 3 /\ Distinct(Xs)
    /\ PreLogs(Xs[1]) = OneEntry("a", 1)
    /\ PreLogs(Xs[2]) = OneEntry("a", 2)
    /\ PreLogs(Xs[3]) = OneEntry("b", 2)
    /\ last.f.logs = EmptyDict
    /\ NowLogs(last.ret)["a"] = 2

\* C3: x.bind(f) with r = f(x.value) a LoggedValue returns the instance x,
\* with x.value = r.value and x.logs the previous x.logs where every key of
\* r.logs has r's value and every other key keeps its previous value.
C3_BindMergesCalleeLogs ==
    Returned("bind") =>
        /\ last.ret = Xs[1]
        /\ NowVal(Xs[1]) = App(FId, <<PreVal(Xs[1])>>)
        /\ objs[Xs[1]].logs = last.pre.objs[Xs[1]].logs
        /\ DOMAIN NowLogs(Xs[1]) = DOMAIN PreLogs(Xs[1]) \cup DOMAIN last.f.logs
        /\ \A k \in DOMAIN last.f.logs : NowLogs(Xs[1])[k] = last.f.logs[k]
        /\ \A k \in DOMAIN PreLogs(Xs[1]) \ DOMAIN last.f.logs :
              NowLogs(Xs[1])[k] = PreLogs(Xs[1])[k]

C3_Witness ==
    /\ Returned("bind")
    /\ PreLogs(Xs[1]) = OneEntry("a", 1)
    /\ last.f.logs = [k \in Keys |-> 3]
    /\ NowLogs(Xs[1]) = [k \in Keys |-> 3]

\* the log entries (key, value) a map / bind / bind_nary step brings: those
\* of the logs f returned and those its arguments held before the step
Contributed ==
    {<<k, last.f.logs[k]>> : k \in DOMAIN last.f.logs}
        \cup UNION {{<<k, PreLogs(Xs[i])[k]>> : k \in DOMAIN PreLogs(Xs[i])} :
                        i \in 1 .. N}

\* the keys the completed steps of the chain brought, this one included
ChainKeys ==
    UNION ({DOMAIN last.done[i].f.logs : i \in DOMAIN last.done}
               \cup {DOMAIN last.f.logs})

\* C4: over map, bind and bind_nary steps the logs of every LoggedValue keep
\* every key they had, the value under a key changes only to an entry the
\* step brings under that key, and after a chain of steps the receiver's
\* keys are those it started with and those the steps brought.
C4_LogsOnlyGrow ==
    (last.op \in {"map", "bind", "bind_nary"}) =>
        /\ \A o \in 1 .. Len(last.pre.objs) :
              /\ DOMAIN PreLogs(o) \subseteq DOMAIN NowLogs(o)
              /\ \A k \in DOMAIN PreLogs(o) :
                    NowLogs(o)[k] # PreLogs(o)[k] =>
                        <<k, NowLogs(o)[k]>> \in Contributed
        /\ (last.op \in {"map", "bind"} /\ last.fault = "none") =>
              DOMAIN NowLogs(Xs[1]) = DOMAIN StartLogs(Xs[1]) \cup ChainKeys

C4_Witness ==
    /\ Returned("bind") /\ Len(last.done) = 1
    /\ last.done[1].op = "bind"
    /\ last.done[1].f.logs = OneEntry("a", 3)
    /\ last.f.logs = [k \in Keys |-> 3]
    /\ StartLogs(Xs[1]) = OneEntry("a", 1)
    /\ NowLogs(Xs[1]) = [k \in Keys |-> 3]

\* C5: x.map(g) returns the instance x with value g(v) and leaves the logs
\* as they were: the same dict, the same keys, the same values.
C5_MapKeepsLogs ==
    Returned("map") =>
        /\ last.ret = Xs[1]
        /\ NowVal(Xs[1]) = App(GId, <<PreVal(Xs[1])>>)
        /\ objs[Xs[1]].logs = last.pre.objs[Xs[1]].logs
        /\ dicts = last.pre.dicts

C5_Witness ==
    /\ Returned("map")
    /\ PreLogs(Xs[1]) = OneEntry("b", 2)
    /\ NowVal(Xs[1]) # PreVal(Xs[1])

\* C6: tree_unflatten(None, tree_flatten(x)[0]) is a LoggedValue with the
\* value and the logs of x, also when the logs are empty, and tree_flatten
\* returns None as its metadata.
C6_FlattenUnflattenRoundTrip ==
    (last.op = "tree_unflatten") =>
        /\ flat.aux = "None"
        /\ last.ret \in 1 .. Len(objs)
        /\ NowVal(last.ret) = PreVal(Xs[1])
        /\ NowLogs(last.ret) = PreLogs(Xs[1])

C6_Witness ==
    /\ last.op = "tree_unflatten"
    /\ PreLogs(Xs[1]) = EmptyDict
    /\ last.ret # Xs[1]
    /\ NowLogs(last.ret) = EmptyDict
    /\ NowVal(last.ret) = PreVal(Xs[1])

\* the value of x after the steps (completed ones) of a chain
RECURSIVE ValueAfter(_, _)
ValueAfter(v, steps) ==
    IF steps = <<>> THEN v
    ELSE ValueAfter(App(Head(steps).f.id, <<v>>), Tail(steps))

C8_LogsIsAuxiliary ==
    (last.op = "tree_flatten") =>
        /\ \A i \in DOMAIN flat.children : flat.children[i].kind = "value"
        /\ flat.aux # "None"

\* C8 amended: tree_flatten exposes two children, value and then the logs
\* dict of the instance, and its auxiliary data is None.
C8_LogsIsSecondChild ==
    (last.op = "tree_flatten") =>
        /\ Len(flat.children) = 2
        /\ flat.children[1].kind = "value"
        /\ flat.children[1].value = NowVal(Xs[1])
        /\ flat.children[2].kind = "dict"
        /\ flat.children[2].id = objs[Xs[1]].logs
        /\ flat.aux = "None"

C8_Witness ==
    /\ last.op = "tree_flatten"
    /\ pc = "flattened"
    /\ NowLogs(Xs[1]) = OneEntry("b", 2)

\* C9: when f returns a bare value or takes another number of arguments
\* than it is given, x.bind(f) and bind_nary(f, X1, ..., Xn), n >= 1, fault
\* (at the call of f, or at the first field access on its result) before
\* anything is mutated: every Xi keeps its value and logs.
C9_ShapeAndArityFaultsMutateNothing ==
    (/\ last.op \in {"bind", "bind_nary"}
     /\ N >= 1
     /\ (last.f.ret = "bare" \/ last.f.arity # N)) =>
        /\ last.fault = IF last.f.arity # N THEN "TypeError" ELSE "AttributeError"
        /\ pc = "faulted"
        /\ objs = last.pre.objs
        /\ dicts = last.pre.dicts

C9_Witness ==
    /\ last.op = "bind_nary" /\ N = 3 /\ Distinct(Xs)
    /\ last.f.ret = "bare"
    /\ last.fault = "AttributeError"
    /\ \A i \in 1 .. 3 : PreLogs(Xs[i]) # EmptyDict

\* what C10 says of a call bind_nary(f, X1, ..., Xn) that has returned: X1
\* is returned, every Xi has the result's value and its own logs overwritten
\* by those of the later arguments and of f, and no Xi from the second on
\* has a key that only an earlier argument held.
C10_Effect ==
    /\ last.ret = Xs[1]
    /\ \A i \in 1 .. N :
          /\ NowVal(Xs[i]) = App(FId, [j \in 1 .. N |-> PreVal(Xs[j])])
          /\ NowLogs(Xs[i]) = FoldLogs(EmptyDict, LogsFrom(i))
          /\ DOMAIN NowLogs(Xs[i]) \subseteq KeysFrom(i)

\* C10 as stated: for n >= 2 distinct instances.
C10_EveryArgumentMutated ==
    (Returned("bind_nary") /\ N >= 2 /\ Distinct(Xs)) => C10_Effect

\* C10 amended: for n >= 2 distinct instances no two of which hold the same
\* dict object as their logs.
C10_EveryUnsharedArgumentMutated ==
    (Returned("bind_nary") /\ N >= 2 /\ Distinct(Xs) /\ DistinctLogs(Xs)) =>
        C10_Effect

C10_Witness ==
    /\ Returned("bind_nary") /\ N = 3 /\ Distinct(Xs) /\ DistinctLogs(Xs)
    /\ PreLogs(Xs[1]) = OneEntry("a", 1)
    /\ PreLogs(Xs[2]) = OneEntry("b", 2)
    /\ PreLogs(Xs[3]) = OneEntry("a", 2)
    /\ last.f.logs = EmptyDict
    /\ NowLogs(Xs[1]) # NowLogs(Xs[3])
    /\ NowLogs(Xs[2]) # NowLogs(Xs[3])

====
